---- MODULE Spec2Model ----
(***************************************************************************)
(* Verification model of d-ai-trader's live-session core: the launcher     *)
(* scripts (credential check and process start-up), the trade safety       *)
(* enforcer, the funds reconciliation chain and the Schwab dashboard's     *)
(* funds computation.                                                      *)
(***************************************************************************)
EXTENDS Integers, Sequences, FiniteSets, TLC

VARIABLES
    \* ---- launcher scripts ----
    launcher,       \* which script this run executes
    pc,             \* position of the script
    tokenFile,      \* schwab_tokens.json: [present, age] (age = now - mtime, seconds)
    tokenAtStart,   \* the token file as the run found it
    REFRESH,        \* the script's REFRESH flag
    ENABLE_STREAM,  \* start_live_trading.sh's --stream / --no-stream
    trace,          \* refresh / validation outcomes of this run, in order
    trapInstalled,  \* whether `trap cleanup EXIT` has run
    started,        \* children this run has launched
    running,        \* children currently alive
    exitCode,       \* -1 while the script runs, else its exit status
    traderAcceptsCadence, \* whether start_d_ai_trader.sh knows -c/--cadence
    traderTrap,     \* whether start_d_ai_trader.sh has installed its EXIT trap
    traceKind,      \* per trace entry: ok, transient (network-level) or rejected
    exitedAt,       \* per child: the time it ended on its own, <<>> if it has not
    cycleRuns,      \* how many times the trading cycle has been launched
    cycleStatus,    \* exit status of the trading cycle, <<>> until it returns
    \* ---- trade safety enforcer (CycleState) ----
    enfState,       \* Idle, ActiveCycle, Completed, Aborted
    cycle_id,
    mode,           \* simulation, live_readonly, live
    cap,
    trades_executed,
    proposals,      \* per candidate order: idle, pending, or its outcome
    observed,       \* trades_executed as it was when the order was proposed
    results,        \* the enforcer's answers of this cycle, in order
    ordersExecuted, \* orders of this cycle sent to the venue
    \* ---- funds reconciliation and the Schwab dashboard ----
    now,            \* clock
    streaming,      \* streaming_enabled: the StreamingHelper feeds the ledger
    snapshot,       \* latest BrokerSnapshot, <<>> before the first poll
    ledger,         \* ShadowLedger: accepted LedgerEvents in arrival order
    view,           \* ReconciledFundsView, <<>> before the first snapshot
    discarded,      \* duplicate LedgerEvents the ledger has discarded
    reading,        \* the (snapshot, ledger) pair a read in progress holds
    readView,       \* the view the last completed read returned, <<>> if none
    data,           \* last /api/schwab/holdings response, <<>> before the first
    fundsAvailable, \* the dashboard's funds-available figure, <<>> before a render
    \* ---- the launchers' arguments and environment ----
    argv,           \* command-line arguments not parsed yet
    environ,        \* the shell's exported variables (inherited, then exported)
    ONE_TRADE_MODE, \* the script's ONE_TRADE_MODE variable
    childEnv,       \* per child: the environment it was started with, <<>> if none
    \* ---- Schwab page (static/js/schwab.js) ----
    schwabLoading,  \* the module's schwabLoading flag
    btnDisabled,    \* refresh-btn.disabled
    inFlight,       \* /api/schwab/holdings requests issued and not settled
    shown,          \* which of the page's sections are displayed
    lastCall,       \* who last asked for a refresh and what came of it
    lastSettle,     \* how the last request ended, <<>> before the first
    \* ---- trade outcomes table (static/js/feedback.js) ----
    currentSort,    \* [column, direction]
    listeners,      \* click listeners attached to each sortable header
    lastClick       \* the last header click, <<>> before the first

traderVars == <<traderAcceptsCadence, traderTrap>>

unitVars == <<traceKind, exitedAt, cycleRuns, cycleStatus>>

launchVars == <<launcher, pc, tokenFile, tokenAtStart, REFRESH, ENABLE_STREAM,
                trace, trapInstalled, started, running, exitCode, traderVars,
                unitVars>>

enfVars == <<enfState, cycle_id, mode, cap, trades_executed, proposals,
             observed, results, ordersExecuted>>

readerVars == <<reading, readView>>

fundsVars == <<now, streaming, snapshot, ledger, view, discarded, readerVars>>

dashVars == <<data, fundsAvailable>>

envVars == <<argv, environ, ONE_TRADE_MODE, childEnv>>

pageVars == <<schwabLoading, btnDisabled, inFlight, shown, lastCall, lastSettle>>

sortVars == <<currentSort, listeners, lastClick>>

browserVars == <<pageVars, sortVars>>

vars == <<launchVars, enfVars, fundsVars, dashVars, envVars, browserVars>>

\* What a launcher step that starts a child leaves alone.
outsideScripts == <<enfVars, fundsVars, dashVars, browserVars>>

outsideLaunch == <<outsideScripts, envVars>>

outsideEnforcer == <<launchVars, fundsVars, dashVars, envVars, browserVars>>

outsideFunds == <<launchVars, enfVars, dashVars, envVars, browserVars>>

outsideDash == <<launchVars, enfVars, envVars, browserVars>>

----------------------------------------------------------------------------
(* Launchers *)

\* AGE < 432000 keeps REFRESH=0 (5 days, in seconds).
FreshnessThreshold == 432000

OneDay == 24 * 3600

\* Token-file ages the runs are tried with: fresh, either side of the
\* threshold, the threshold itself, and six days.
Ages == {0, FreshnessThreshold - 1, FreshnessThreshold, FreshnessThreshold + 1,
         6 * OneDay}

Launchers == {"start_schwab_one_trade", "start_live_trading"}

\* Variant of NeedsRefresh that keeps a token aged exactly the threshold.
NeedsRefresh_gt(present, age) == ~present \/ age > FreshnessThreshold

\* Lines 133-139: REFRESH stays 1 unless the file exists and AGE < 432000.

NeedsRefresh(present, age) == ~(present /\ age < FreshnessThreshold)

\* Variant of Cleanup that signals the streaming helper only.
Cleanup_StreamOnly(l, installed) ==
    IF ~installed THEN {} ELSE {"stream"}

\* The children the EXIT trap's cleanup() signals.
Cleanup(l, installed) ==
    IF ~installed THEN {}
    ELSE IF l = "start_schwab_one_trade" THEN {"stream", "dashboard"}
    ELSE {"stream"}

\* The children start_d_ai_trader.sh's EXIT trap signals.
TraderCleanup(installed) ==
    IF installed THEN {"dashboard", "automation"} ELSE {}

\* The script ends with the given status while the children in alive are
\* running; the EXIT traps run and their kill ends the children they name.
ExitFrom(status, alive) ==
    /\ pc' = "exited"
    /\ exitCode' = status
    /\ running' = alive \ (Cleanup(launcher, trapInstalled)
                            \cup TraderCleanup(traderTrap))

\* The script ends with the given status; the EXIT traps run.
ExitWith(status) == ExitFrom(status, running)

\* The processes a launcher may start.
Units == {"stream", "dashboard", "cycle", "automation"}

\* How an authentication step may end: accepted, a network-level failure,
\* or a rejection by the remote service.
Outcomes == {"ok", "transient", "rejected"}

\* No child has ended and the trading cycle has not been launched.
UnitsIdle ==
    /\ exitedAt = [u \in Units |-> <<>>]
    /\ cycleRuns = 0
    /\ cycleStatus = <<>>

\* No trading cycle has been created yet.
EnforcerIdle ==
    /\ enfState = "Idle"
    /\ cycle_id = 0
    /\ mode = "simulation"
    /\ cap = 1
    /\ trades_executed = 0
    /\ proposals = <<>>
    /\ observed = <<>>
    /\ results = <<>>
    /\ ordersExecuted = 0

\* An absent value (JSON null / undefined, a missing field) and a present one.
None == <<>>

Some(v) == <<v>>

\* No snapshot polled, nothing streamed, nothing rendered yet.
FundsIdle ==
    /\ now = 0
    /\ streaming = TRUE
    /\ snapshot = None
    /\ ledger = <<>>
    /\ view = None
    /\ discarded = 0
    /\ reading = None
    /\ readView = None
    /\ data = None
    /\ fundsAvailable = None

\* The environment a default run of a pilot launcher has exported when it
\* reaches its token check (start_schwab_one_trade.sh 91-98,
\* start_live_trading.sh 120-128), nothing inherited.
PilotEnv ==
    [DAI_MAX_TRADES |-> Some(1),
     DAI_ONE_TRADE_MODE |-> Some(1),
     DAI_SCHWAB_READONLY |-> Some(0),
     DAI_DISABLE_AUTOMATION |-> Some(0)]

\* Arguments parsed and variables exported, by a run without arguments
\* and without inherited settings; the children in alive were started with
\* that environment.
EnvSettled(alive) ==
    /\ argv = <<>>
    /\ environ = PilotEnv
    /\ ONE_TRADE_MODE = 1
    /\ childEnv = [u \in Units |-> IF u \in alive THEN Some(PilotEnv) ELSE None]

\* The pages as they are before their DOMContentLoaded handlers have run:
\* schwab.js line 95 (schwabLoading = false), feedback.js lines 100-101.
BrowserIdle ==
    /\ schwabLoading = FALSE
    /\ btnDisabled = FALSE
    /\ inFlight = 0
    /\ shown = {}
    /\ lastCall = None
    /\ lastSettle = None
    /\ currentSort = [column |-> "sell_date", direction |-> "desc"]
    /\ listeners = 0
    /\ lastClick = None

InitLaunch ==
    /\ launcher \in Launchers
    /\ pc = "start"
    /\ EnvSettled({})
    /\ BrowserIdle
    /\ tokenFile \in [present : BOOLEAN, age : Ages]
    /\ (~tokenFile.present => tokenFile.age = 0)
    /\ tokenAtStart = tokenFile
    /\ REFRESH = 1
    /\ ENABLE_STREAM \in {0, 1}
    /\ (launcher = "start_schwab_one_trade" => ENABLE_STREAM = 1)
    /\ trace = <<>>
    /\ trapInstalled = FALSE
    /\ started = {}
    /\ running = {}
    /\ exitCode = -1
    /\ traderAcceptsCadence \in BOOLEAN
    /\ (launcher = "start_schwab_one_trade" => traderAcceptsCadence)
    /\ traderTrap = FALSE
    /\ traceKind = <<>>
    /\ UnitsIdle
    /\ EnforcerIdle
    /\ FundsIdle

\* The read-only launchers: test_schwab_api.sh and start_schwab_live_view.sh
\* (quoted in GO_LIVE_CHECKLIST.md) and start_schwab_readonly.sh (quoted in
\* SCHWAB_API_SETUP.md).
ReadOnlyLaunchers ==
    {"test_schwab_api", "start_schwab_live_view", "start_schwab_readonly"}

\* The launchers that check the Schwab token before starting anything.
CredentialLaunchers == {"start_schwab_one_trade", "start_schwab_readonly"}

\* python ... & (or a foreground python): the process is created with a
\* copy of the variables the shell has exported so far.
Launch(c) ==
    /\ started' = started \cup {c}
    /\ running' = running \cup {c}
    /\ childEnv' = [childEnv EXCEPT ![c] = Some(environ)]
    /\ UNCHANGED <<argv, environ, ONE_TRADE_MODE>>

\* start_schwab_one_trade.sh 133-139 (start_schwab_readonly.sh: the same
\* lines, SCHWAB_API_SETUP.md 251-258)
TokenCheck ==
    /\ launcher \in CredentialLaunchers
    /\ pc = "start"
    /\ REFRESH' = IF NeedsRefresh(tokenFile.present, tokenFile.age) THEN 1 ELSE 0
    /\ pc' = "maybe_refresh"
    /\ UNCHANGED <<launcher, tokenFile, tokenAtStart, ENABLE_STREAM, trace,
                   trapInstalled, started, running, exitCode>>
    /\ UNCHANGED traderVars
    /\ UNCHANGED unitVars
    /\ UNCHANGED outsideLaunch

\* start_schwab_one_trade.sh 141-143
MaybeRefresh ==
    /\ pc = "maybe_refresh"
    /\ pc' = IF REFRESH = 1 THEN "refresh1_rm" ELSE "validate1"
    /\ UNCHANGED <<launcher, tokenFile, tokenAtStart, REFRESH, ENABLE_STREAM,
                   trace, trapInstalled, started, running, exitCode>>
    /\ UNCHANGED traderVars
    /\ UNCHANGED unitVars
    /\ UNCHANGED outsideLaunch

\* refresh_tokens, line 106: rm -f "${TOKEN_FILE}"
RefreshRm ==
    /\ pc \in {"refresh1_rm", "refresh2_rm"}
    /\ tokenFile' = [present |-> FALSE, age |-> 0]
    /\ pc' = IF pc = "refresh1_rm" THEN "refresh1_auth" ELSE "refresh2_auth"
    /\ UNCHANGED <<launcher, tokenAtStart, REFRESH, ENABLE_STREAM, trace,
                   trapInstalled, started, running, exitCode>>
    /\ UNCHANGED traderVars
    /\ UNCHANGED unitVars
    /\ UNCHANGED outsideLaunch

\* refresh_tokens, line 107: python schwab_manual_auth.py --save.  It is the
\* function's last command, called outside any condition, so under `set -e`
\* (line 3) a non-zero status ends the script.
RefreshAuth ==
    /\ pc \in {"refresh1_auth", "refresh2_auth"}
    /\ \E outcome \in Outcomes :
         /\ traceKind' = Append(traceKind, outcome)
         /\ IF outcome = "ok"
            THEN /\ tokenFile' = [present |-> TRUE, age |-> 0]
                 /\ trace' = Append(trace, "refresh_ok")
                 /\ pc' = IF pc = "refresh1_auth" THEN "validate1"
                          ELSE "validate2"
                 /\ UNCHANGED <<running, exitCode>>
            ELSE /\ trace' = Append(trace, "refresh_fail")
                 /\ ExitWith(1)
                 /\ UNCHANGED tokenFile
    /\ UNCHANGED <<launcher, tokenAtStart, REFRESH, ENABLE_STREAM,
                   trapInstalled, started>>
    /\ UNCHANGED traderVars
    /\ UNCHANGED <<exitedAt, cycleRuns, cycleStatus>>
    /\ UNCHANGED outsideLaunch

\* Variant of Validate without the refresh-and-retry: the first failed
\* validation is already fatal.
Validate_NoRetry ==
    /\ pc \in {"validate1", "validate2"}
    /\ \E outcome \in Outcomes :
         /\ traceKind' = Append(traceKind, outcome)
         /\ IF outcome = "ok"
            THEN /\ trace' = Append(trace, "validate_ok")
                 /\ pc' = "trap"
                 /\ UNCHANGED <<running, exitCode>>
            ELSE /\ trace' = Append(trace, "validate_fail")
                 /\ ExitWith(1)
    /\ UNCHANGED <<launcher, tokenFile, tokenAtStart, REFRESH, ENABLE_STREAM,
                   trapInstalled, started>>
    /\ UNCHANGED traderVars
    /\ UNCHANGED <<exitedAt, cycleRuns, cycleStatus>>
    /\ UNCHANGED outsideLaunch

\* validate_tokens as the condition of the two ifs, lines 145 and 147; the
\* second failure prints the error and exits 1 (148-149).  Lines 116-127:
\* a refused authentication, a status other than 200, an empty payload and
\* any exception (a network failure among them) all end in sys.exit(1).
Validate ==
    /\ pc \in {"validate1", "validate2"}
    /\ \E outcome \in Outcomes :
         /\ traceKind' = Append(traceKind, outcome)
         /\ IF outcome = "ok"
            THEN /\ trace' = Append(trace, "validate_ok")
                 /\ pc' = "trap"
                 /\ UNCHANGED <<running, exitCode>>
            ELSE /\ trace' = Append(trace, "validate_fail")
                 /\ IF pc = "validate1"
                    THEN pc' = "refresh2_rm" /\ UNCHANGED <<running, exitCode>>
                    ELSE ExitWith(1)
    /\ UNCHANGED <<launcher, tokenFile, tokenAtStart, REFRESH, ENABLE_STREAM,
                   trapInstalled, started>>
    /\ UNCHANGED traderVars
    /\ UNCHANGED <<exitedAt, cycleRuns, cycleStatus>>
    /\ UNCHANGED outsideLaunch

\* start_schwab_one_trade.sh 153-161
InstallTrap ==
    /\ pc = "trap"
    /\ trapInstalled' = TRUE
    /\ pc' = "start_stream"
    /\ UNCHANGED <<launcher, tokenFile, tokenAtStart, REFRESH, ENABLE_STREAM,
                   trace, started, running, exitCode>>
    /\ UNCHANGED traderVars
    /\ UNCHANGED unitVars
    /\ UNCHANGED outsideLaunch

\* Variant of StartStream that goes on to the dashboard without having
\* started the streaming helper.
StartStream_Skip ==
    /\ pc = "start_stream"
    /\ pc' = IF launcher = "start_schwab_readonly" THEN "export"
             ELSE "start_dash"
    /\ UNCHANGED <<launcher, tokenFile, tokenAtStart, REFRESH, ENABLE_STREAM,
                   trace, trapInstalled, exitCode, started, running>>
    /\ UNCHANGED traderVars
    /\ UNCHANGED unitVars
    /\ UNCHANGED outsideLaunch

\* start_schwab_one_trade.sh 163-166.  start_schwab_readonly.sh starts the
\* helper the same way (SCHWAB_API_SETUP.md 280-283) and exports its
\* read-only settings only afterwards (285-291).
StartStream ==
    /\ pc = "start_stream"
    /\ Launch("stream")
    /\ pc' = IF launcher = "start_schwab_readonly" THEN "export"
             ELSE "start_dash"
    /\ UNCHANGED <<launcher, tokenFile, tokenAtStart, REFRESH, ENABLE_STREAM,
                   trace, trapInstalled, exitCode>>
    /\ UNCHANGED traderVars
    /\ UNCHANGED unitVars
    /\ UNCHANGED outsideScripts

\* start_schwab_one_trade.sh 178-182
StartDash ==
    /\ pc = "start_dash"
    /\ Launch("dashboard")
    /\ pc' = "cycle"
    /\ UNCHANGED <<launcher, tokenFile, tokenAtStart, REFRESH, ENABLE_STREAM,
                   trace, trapInstalled, exitCode>>
    /\ UNCHANGED traderVars
    /\ UNCHANGED unitVars
    /\ UNCHANGED outsideScripts

\* start_schwab_one_trade.sh 184-185: the trading cycle is started as a
\* foreground command; the script is blocked until it returns.
RunCycle ==
    /\ pc = "cycle"
    /\ Launch("cycle")
    /\ cycleRuns' = cycleRuns + 1
    /\ pc' = "cycle_run"
    /\ UNCHANGED <<launcher, tokenFile, tokenAtStart, REFRESH, ENABLE_STREAM,
                   trace, trapInstalled, exitCode>>
    /\ UNCHANGED traderVars
    /\ UNCHANGED <<traceKind, exitedAt, cycleStatus>>
    /\ UNCHANGED outsideScripts

\* Variant of CycleExit that launches the trading cycle again after a
\* non-zero status.
CycleExit_Restart ==
    /\ pc = "cycle_run"
    /\ \E status \in {0, 1} :
         /\ cycleStatus' = Some(status)
         /\ pc' = IF status = 0 THEN "wait" ELSE "cycle"
         /\ running' = running \ {"cycle"}
         /\ UNCHANGED exitCode
    /\ UNCHANGED <<launcher, tokenFile, tokenAtStart, REFRESH, ENABLE_STREAM,
                   trace, trapInstalled, started>>
    /\ UNCHANGED traderVars
    /\ UNCHANGED <<traceKind, exitedAt, cycleRuns>>
    /\ UNCHANGED outsideLaunch

\* start_schwab_one_trade.sh 185-237: the trading cycle returns.  On status
\* 0 the script goes on to line 233 and the wait; a non-zero status ends the
\* script with that status under `set -e` (line 3).
CycleExit ==
    /\ pc = "cycle_run"
    /\ \E status \in {0, 1} :
         /\ cycleStatus' = Some(status)
         /\ IF status = 0
            THEN /\ pc' = "wait"
                 /\ running' = running \ {"cycle"}
                 /\ UNCHANGED exitCode
            ELSE ExitFrom(status, running \ {"cycle"})
    /\ UNCHANGED <<launcher, tokenFile, tokenAtStart, REFRESH, ENABLE_STREAM,
                   trace, trapInstalled, started>>
    /\ UNCHANGED traderVars
    /\ UNCHANGED <<traceKind, exitedAt, cycleRuns>>
    /\ UNCHANGED outsideLaunch

\* Variant of ChildExit in which the end of the streaming helper takes the
\* dashboard down with it.
ChildExit_StreamFatal ==
    /\ pc # "exited"
    /\ \E c \in running \ {"cycle"} :
         /\ running' = IF c = "stream" THEN running \ {"stream", "dashboard"}
                       ELSE running \ {c}
         /\ exitedAt' = [exitedAt EXCEPT ![c] = Some(now)]
    /\ UNCHANGED <<launcher, pc, tokenFile, tokenAtStart, REFRESH,
                   ENABLE_STREAM, trace, trapInstalled, started, exitCode>>
    /\ UNCHANGED traderVars
    /\ UNCHANGED <<traceKind, cycleRuns, cycleStatus>>
    /\ UNCHANGED outsideLaunch

\* A background child (started with &) ends on its own.  No script waits on
\* or polls STREAM_PID, and the dashboard's end is only seen by a wait
\* (start_schwab_one_trade.sh 237, start_d_ai_trader.sh 102): the script's
\* position does not change.
ChildExit ==
    /\ pc # "exited"
    /\ \E c \in running \ {"cycle"} :
         /\ running' = running \ {c}
         /\ exitedAt' = [exitedAt EXCEPT ![c] = Some(now)]
    /\ UNCHANGED <<launcher, pc, tokenFile, tokenAtStart, REFRESH,
                   ENABLE_STREAM, trace, trapInstalled, started, exitCode>>
    /\ UNCHANGED traderVars
    /\ UNCHANGED <<traceKind, cycleRuns, cycleStatus>>
    /\ UNCHANGED outsideLaunch

\* SIGTERM is sent to the launcher the operator started.  No script traps
\* TERM, so the shell ends at once with status 143, whatever it is waiting
\* on, and runs its own EXIT trap.  A start_d_ai_trader.sh running under
\* start_live_trading.sh is a separate process: its trap does not run.
Terminate ==
    /\ pc # "exited"
    /\ pc' = "exited"
    /\ exitCode' = 143
    /\ running' = running \ Cleanup(launcher, trapInstalled)
    /\ UNCHANGED <<launcher, tokenFile, tokenAtStart, REFRESH, ENABLE_STREAM,
                   trace, trapInstalled, started>>
    /\ UNCHANGED traderVars
    /\ UNCHANGED unitVars
    /\ UNCHANGED outsideLaunch

\* start_schwab_one_trade.sh 237: wait "${DASH_PID}" returns once the
\* dashboard is gone; the script then ends with the dashboard's status.
WaitDash ==
    /\ pc = "wait"
    /\ "dashboard" \notin running
    /\ \E status \in {0, 1} : ExitWith(status)
    /\ UNCHANGED <<launcher, tokenFile, tokenAtStart, REFRESH, ENABLE_STREAM,
                   trace, trapInstalled, started>>
    /\ UNCHANGED traderVars
    /\ UNCHANGED unitVars
    /\ UNCHANGED outsideLaunch

\* start_live_trading.sh 154-159; start_schwab_live_view.sh has the same
\* cleanup and trap after its exports (GO_LIVE_CHECKLIST.md 398-403).
LiveInstallTrap ==
    /\ launcher \in {"start_live_trading", "start_schwab_live_view"}
    /\ pc = "start"
    /\ trapInstalled' = TRUE
    /\ pc' = "live_stream"
    /\ UNCHANGED <<launcher, tokenFile, tokenAtStart, REFRESH, ENABLE_STREAM,
                   trace, started, running, exitCode>>
    /\ UNCHANGED traderVars
    /\ UNCHANGED unitVars
    /\ UNCHANGED outsideLaunch

\* start_live_trading.sh 161-167, then the delegation of line 169;
\* start_schwab_live_view.sh 405-410, then the dashboard of line 412.
LiveStartStream ==
    /\ pc = "live_stream"
    /\ IF ENABLE_STREAM = 1
       THEN Launch("stream")
       ELSE UNCHANGED <<started, running, envVars>>
    /\ pc' = IF launcher = "start_schwab_live_view" THEN "ro_dash"
             ELSE "delegate"
    /\ UNCHANGED <<launcher, tokenFile, tokenAtStart, REFRESH, ENABLE_STREAM,
                   trace, trapInstalled, exitCode>>
    /\ UNCHANGED traderVars
    /\ UNCHANGED unitVars
    /\ UNCHANGED outsideScripts

\* The options start_live_trading.sh 169 passes to start_d_ai_trader.sh.
DelegatedArgs == {"-p", "-m", "-t", "-c"}

\* The case arms of start_d_ai_trader.sh's argument loop (36-45): -p, -m,
\* -v, -t and --help; any other word is "Unknown arg", usage, exit 1.  The
\* revision of the script in part_002 (46-56) has the arm -c|--cadence too.
TraderAccepts(arg) ==
    \/ arg \in {"-p", "-m", "-v", "-t", "--help"}
    \/ (traderAcceptsCadence /\ arg = "-c")

\* start_live_trading.sh 169 runs start_d_ai_trader.sh -p -m -t real_world -c
\* in the foreground.  Its argument loop (start_d_ai_trader.sh 36-45) ends
\* the run with status 1 on an option it does not know; the revision of the
\* script that parses -c|--cadence goes on to start its children.
LiveDelegate ==
    /\ pc = "delegate"
    /\ IF \A arg \in DelegatedArgs : TraderAccepts(arg)
       THEN pc' = "trader_dash" /\ UNCHANGED <<running, exitCode>>
       ELSE ExitWith(1)
    /\ UNCHANGED <<launcher, tokenFile, tokenAtStart, REFRESH, ENABLE_STREAM,
                   trace, trapInstalled, started>>
    /\ UNCHANGED traderVars
    /\ UNCHANGED unitVars
    /\ UNCHANGED outsideLaunch

\* start_d_ai_trader.sh 93-94: python dashboard_server.py &
TraderStartDash ==
    /\ pc = "trader_dash"
    /\ Launch("dashboard")
    /\ pc' = "trader_auto"
    /\ UNCHANGED <<launcher, tokenFile, tokenAtStart, REFRESH, ENABLE_STREAM,
                   trace, trapInstalled, exitCode>>
    /\ UNCHANGED traderVars
    /\ UNCHANGED unitVars
    /\ UNCHANGED outsideScripts

\* start_d_ai_trader.sh 96-97: python d_ai_trader.py &
TraderStartAuto ==
    /\ pc = "trader_auto"
    /\ Launch("automation")
    /\ pc' = "trader_trap"
    /\ UNCHANGED <<launcher, tokenFile, tokenAtStart, REFRESH, ENABLE_STREAM,
                   trace, trapInstalled, exitCode>>
    /\ UNCHANGED traderVars
    /\ UNCHANGED unitVars
    /\ UNCHANGED outsideScripts

\* start_d_ai_trader.sh 99: trap '... kill ${DASH_PID} ${AUTO_PID} ...' EXIT
TraderInstallTrap ==
    /\ pc = "trader_trap"
    /\ traderTrap' = TRUE
    /\ pc' = "trader_wait"
    /\ UNCHANGED <<launcher, tokenFile, tokenAtStart, REFRESH, ENABLE_STREAM,
                   trace, trapInstalled, started, running, exitCode>>
    /\ UNCHANGED traderAcceptsCadence
    /\ UNCHANGED unitVars
    /\ UNCHANGED outsideLaunch

\* start_d_ai_trader.sh 102: wait returns once every child is gone; the
\* script and then the wrapper end with status 0.
TraderWait ==
    /\ pc = "trader_wait"
    /\ running \cap {"dashboard", "automation"} = {}
    /\ ExitWith(0)
    /\ UNCHANGED <<launcher, tokenFile, tokenAtStart, REFRESH, ENABLE_STREAM,
                   trace, trapInstalled, started>>
    /\ UNCHANGED traderVars
    /\ UNCHANGED unitVars
    /\ UNCHANGED outsideLaunch

NextLaunch ==
    \/ TokenCheck
    \/ MaybeRefresh
    \/ RefreshRm
    \/ RefreshAuth
    \/ Validate
    \/ InstallTrap
    \/ StartStream
    \/ StartDash
    \/ RunCycle
    \/ CycleExit
    \/ ChildExit
    \/ Terminate
    \/ WaitDash
    \/ LiveInstallTrap
    \/ LiveStartStream
    \/ LiveDelegate
    \/ TraderStartDash
    \/ TraderStartAuto
    \/ TraderInstallTrap
    \/ TraderWait

SpecLaunch == InitLaunch /\ [][NextLaunch]_vars

\* The steps of the scripts themselves, and the return of the one-shot
\* trading cycle: a shell that can take its next step takes it, and the
\* cycle ends.  Background children may run forever and nobody has to send
\* a signal.
ScriptStep ==
    \/ TokenCheck
    \/ MaybeRefresh
    \/ RefreshRm
    \/ RefreshAuth
    \/ Validate
    \/ InstallTrap
    \/ StartStream
    \/ StartDash
    \/ RunCycle
    \/ CycleExit
    \/ WaitDash
    \/ LiveInstallTrap
    \/ LiveStartStream
    \/ LiveDelegate
    \/ TraderStartDash
    \/ TraderStartAuto
    \/ TraderInstallTrap
    \/ TraderWait

SpecLaunchFair == SpecLaunch /\ WF_vars(ScriptStep)

----------------------------------------------------------------------------
(* Credential check and start-up order *)

RefreshEvents == {"refresh_ok", "refresh_fail"}

ValidateEvents == {"validate_ok", "validate_fail"}

Count(s, S) == Cardinality({i \in DOMAIN s : s[i] \in S})

\* The script is still inside the token check (lines 133-151).
InCredentialCheck ==
    /\ launcher = "start_schwab_one_trade"
    /\ pc \in {"start", "maybe_refresh", "refresh1_rm", "refresh1_auth",
               "validate1", "refresh2_rm", "refresh2_auth", "validate2"}

\* The run was ended by a signal (status 128 + 15).
Terminated == pc = "exited" /\ exitCode = 143

CredentialOK == \E i \in DOMAIN trace : trace[i] = "validate_ok"

CredentialFailed ==
    /\ trace # <<>>
    /\ trace[Len(trace)] \in {"refresh_fail", "validate_fail"}
    /\ pc = "exited"

\* Index of the first failed validation, 0 if there is none.
FirstValidateFail ==
    IF \E i \in DOMAIN trace : trace[i] = "validate_fail"
    THEN CHOOSE i \in DOMAIN trace :
            /\ trace[i] = "validate_fail"
            /\ \A j \in 1..(i - 1) : trace[j] # "validate_fail"
    ELSE 0

\* The part of the trace after the first failed validation.
AfterFirstFail == SubSeq(trace, FirstValidateFail + 1, Len(trace))

\* C1: no supervised process (streaming helper, dashboard, trading cycle) is
\* started in a run unless that run's credential check has succeeded, and a
\* run whose credential check fails exits without having started anything;
\* for both start_schwab_one_trade.sh and start_live_trading.sh.
C1_NoStartBeforeCredentialCheck ==
    /\ (started # {} => CredentialOK)
    /\ (CredentialFailed => started = {})

\* C2 as claimed: after a failed validation there is exactly one refresh and
\* then exactly one re-validation; a second failure is fatal; at most two
\* refreshes and two validations per run.  (Runs that a signal ended in the
\* middle of the check are left aside, here and in the amended form.)
C2_OneRefreshOneRevalidation ==
    /\ Count(trace, RefreshEvents) <= 2
    /\ Count(trace, ValidateEvents) <= 2
    /\ (launcher = "start_schwab_one_trade" /\ ~InCredentialCheck
        /\ ~Terminated /\ FirstValidateFail # 0)
       => /\ Count(AfterFirstFail, RefreshEvents) = 1
          /\ Count(AfterFirstFail, ValidateEvents) = 1
          /\ AfterFirstFail[1] \in RefreshEvents
          /\ (AfterFirstFail[2] = "validate_fail"
              => pc = "exited" /\ exitCode = 1 /\ started = {})

\* C2 (amended): after a failed validation there is exactly one refresh
\* attempt; if the refresh command succeeds it is followed by exactly one
\* re-validation, whose failure ends the run with status 1 and nothing
\* started; if the refresh command fails the run ends at once with status 1
\* and no re-validation.  No run has more than two refreshes or two
\* validations, and the check never loops (the trace has at most 4 entries).
C2_OneRefreshThenRevalidateIfRefreshed ==
    /\ Count(trace, RefreshEvents) <= 2
    /\ Count(trace, ValidateEvents) <= 2
    /\ Len(trace) <= 4
    /\ (launcher = "start_schwab_one_trade" /\ ~InCredentialCheck
        /\ ~Terminated /\ FirstValidateFail # 0)
       => /\ Count(AfterFirstFail, RefreshEvents) = 1
          /\ AfterFirstFail[1] \in RefreshEvents
          /\ IF AfterFirstFail[1] = "refresh_ok"
             THEN /\ Len(AfterFirstFail) = 2
                  /\ AfterFirstFail[2] \in ValidateEvents
                  /\ (AfterFirstFail[2] = "validate_fail"
                      => pc = "exited" /\ exitCode = 1 /\ started = {})
             ELSE /\ Len(AfterFirstFail) = 1
                  /\ pc = "exited" /\ exitCode = 1 /\ started = {}

\* Witness for C2: validation failed, one refresh succeeded, the
\* re-validation failed too and the run ended with status 1.
C2_Witness ==
    /\ pc = "exited"
    /\ exitCode = 1
    /\ AfterFirstFail = <<"refresh_ok", "validate_fail">>

\* C3 as claimed: the check refreshes before validating exactly when the
\* token file is absent or older than the threshold, so a token aged exactly
\* 432000 s is not refreshed unless validation fails.
C3_RefreshIffOlderThanThreshold ==
    (launcher = "start_schwab_one_trade" /\ trace # <<>>)
    => /\ (trace[1] \in RefreshEvents
           <=> (~tokenAtStart.present \/ tokenAtStart.age > FreshnessThreshold))
       /\ \A i \in 2..Len(trace) :
            trace[i] \in RefreshEvents => trace[i - 1] = "validate_fail"

\* C3 (amended): the check refreshes before validating exactly when the
\* token file is absent or its age is at least the threshold (432000 s): a
\* six-day-old token and a token aged exactly 432000 s are refreshed, a
\* younger one is refreshed only after a failed validation.
C3_RefreshIffAtLeastThreshold ==
    (launcher = "start_schwab_one_trade" /\ trace # <<>>)
    => /\ (trace[1] \in RefreshEvents
           <=> (~tokenAtStart.present \/ tokenAtStart.age >= FreshnessThreshold))
       /\ \A i \in 2..Len(trace) :
            trace[i] \in RefreshEvents => trace[i - 1] = "validate_fail"

\* Witness for C3: a token aged exactly the threshold was refreshed before
\* the first validation.
C3_Witness ==
    /\ tokenAtStart.present
    /\ tokenAtStart.age = FreshnessThreshold
    /\ Len(trace) >= 2
    /\ trace[1] = "refresh_ok"
    /\ trace[2] \in ValidateEvents

----------------------------------------------------------------------------
(* Process supervision and the persisted token *)

\* C12: on a termination signal or a fatal failure of a long-running unit
\* the supervisor stops every running unit (graceful stop, grace period,
\* forced termination), so that in every state in which the supervisor has
\* exited no child it started is still running.
C12_NoChildOutlivesSupervisor == pc = "exited" => running = {}

\* C13: if the dashboard exits while other supervised units are running, the
\* supervisor treats it as fatal at whatever point of the run it happens:
\* eventually every other unit has been stopped and the supervisor has
\* exited (or the operator's signal has ended the run first).
C13_DashboardDeathFatal ==
    ("dashboard" \in started /\ "dashboard" \notin running /\ running # {}
     /\ pc # "exited")
    ~> ((pc = "exited" /\ running = {}) \/ Terminated)

\* C14: when the streaming helper exits on its own while the dashboard is
\* running, the supervisor does not stop the dashboard: the helper's exit
\* changes nothing but the helper, the dashboard leaves the running set only
\* by exiting on its own or when the supervisor itself ends, and a
\* supervisor waiting on the dashboard keeps waiting.
C14_StreamExitSparesDashboard ==
    /\ [][("stream" \in running /\ "stream" \notin running' /\ pc' # "exited")
           => (pc' = pc /\ running' = running \ {"stream"})]_vars
    /\ [][("dashboard" \in running /\ "dashboard" \notin running')
           => \/ pc' = "exited"
              \/ pc' = pc /\ running' = running \ {"dashboard"}]_vars
    /\ []((exitedAt["stream"] # None /\ "dashboard" \in running)
          => (~ENABLED WaitDash /\ ~ENABLED TraderWait))

\* Witness for C14: the streaming helper has ended on its own, the dashboard
\* is still running and the launcher is waiting on it.
C14_Witness ==
    /\ exitedAt["stream"] # None
    /\ "stream" \notin running
    /\ "dashboard" \in running
    /\ pc = "wait"

C16_TokenChangedOnlyBySuccessfulRefresh ==
    /\ (\A i \in DOMAIN trace : trace[i] # "refresh_ok")
       => tokenFile = tokenAtStart
    /\ tokenAtStart.present => tokenFile.present

\* Two trace entries are attempts of the same step.
SameStep(a, b) == (a \in RefreshEvents) <=> (b \in RefreshEvents)

\* C17: a network-level failure of a refresh or validation is retried, at
\* most 2 additional times, before the check ends as fatal: a check that
\* ended as fatal on a network-level failure had attempted that step at
\* least twice in a row, and no step is attempted more than 3 times in a row.
C17_TransientRetried ==
    /\ (CredentialFailed /\ ~Terminated
        /\ traceKind[Len(traceKind)] = "transient")
       => /\ Len(trace) >= 2
          /\ SameStep(trace[Len(trace) - 1], trace[Len(trace)])
          /\ traceKind[Len(trace) - 1] = "transient"
    /\ \A i \in DOMAIN trace :
         i + 3 \in DOMAIN trace
         => ~(\A k \in 1..3 : SameStep(trace[i], trace[i + k]))

----------------------------------------------------------------------------
(* Trade safety enforcer (spec 4.5) *)

\* Candidate orders the executor may propose in one cycle.
MaxProposals == 3

\* Largest configured trade cap tried.
MaxCap == 2

\* Cycles per run of the model.
MaxCycles == 2

Modes == {"simulation", "live_readonly", "live"}

Proposers == 1..MaxProposals

\* The launcher's trade cap: export DAI_MAX_TRADES="${DAI_MAX_TRADES:-1}".
\* env is <<>> when the variable is unset or empty, else <<value>>.
DAI_MAX_TRADES(env) == IF env = <<>> THEN 1 ELSE env[1]

EnvMaxTrades == {<<>>} \cup {<<n>> : n \in 0..MaxCap}

\* Variant of Decide whose cap test lets one order too many through.
Decide_OffByOne(m, executed, limit) ==
    IF m # "live"
    THEN [result |-> "Recorded", trades_executed |-> executed]
    ELSE IF m = "live_readonly"
    THEN [result |-> "ReadOnly", trades_executed |-> executed]
    ELSE IF executed > limit
    THEN [result |-> "CapExceeded", trades_executed |-> executed]
    ELSE [result |-> "Permitted", trades_executed |-> executed + 1]

\* Variant of Decide that tests the read-only mode before the non-live rule.
Decide_ReadOnlyFirst(m, executed, limit) ==
    IF m = "live_readonly"
    THEN [result |-> "ReadOnly", trades_executed |-> executed]
    ELSE IF m # "live"
    THEN [result |-> "Recorded", trades_executed |-> executed]
    ELSE IF executed >= limit
    THEN [result |-> "CapExceeded", trades_executed |-> executed]
    ELSE [result |-> "Permitted", trades_executed |-> executed + 1]

\* The enforcer's rules (1)-(4), evaluated in the stated order.  "Recorded"
\* is rule (1): the decision is recorded, marked non-executing, and the call
\* succeeds locally.
Decide(m, executed, limit) ==
    IF m # "live"
    THEN [result |-> "Recorded", trades_executed |-> executed]
    ELSE IF m = "live_readonly"
    THEN [result |-> "ReadOnly", trades_executed |-> executed]
    ELSE IF executed >= limit
    THEN [result |-> "CapExceeded", trades_executed |-> executed]
    ELSE [result |-> "Permitted", trades_executed |-> executed + 1]

\* The launcher state while trading cycles run: start_schwab_one_trade.sh
\* at its trading-cycle step, credentials validated, helpers running.
LaunchAtCycle ==
    /\ launcher = "start_schwab_one_trade"
    /\ pc = "cycle"
    /\ tokenFile = [present |-> TRUE, age |-> 0]
    /\ tokenAtStart = tokenFile
    /\ REFRESH = 0
    /\ ENABLE_STREAM = 1
    /\ trace = <<"validate_ok">>
    /\ trapInstalled = TRUE
    /\ started = {"stream", "dashboard"}
    /\ running = {"stream", "dashboard"}
    /\ exitCode = -1
    /\ traderAcceptsCadence = TRUE
    /\ traderTrap = FALSE
    /\ traceKind = <<"ok">>
    /\ UnitsIdle
    /\ EnvSettled({"stream", "dashboard"})
    /\ BrowserIdle

InitEnforcer ==
    /\ LaunchAtCycle
    /\ EnforcerIdle
    /\ FundsIdle

\* Cycle start: Idle -> ActiveCycle, mode and cap captured from the
\* configuration, trades_executed = 0.  The previous CycleState is discarded.
StartCycle ==
    /\ enfState \in {"Idle", "Completed", "Aborted"}
    /\ cycle_id < MaxCycles
    /\ \E m \in Modes, env \in EnvMaxTrades :
         /\ mode' = m
         /\ cap' = DAI_MAX_TRADES(env)
    /\ enfState' = "ActiveCycle"
    /\ cycle_id' = cycle_id + 1
    /\ trades_executed' = 0
    /\ proposals' = [p \in Proposers |-> "idle"]
    /\ observed' = [p \in Proposers |-> 0]
    /\ results' = <<>>
    /\ ordersExecuted' = 0
    /\ UNCHANGED outsideEnforcer

\* The executor proposes candidate order p; it is now awaiting the enforcer.
Propose(p) ==
    /\ enfState = "ActiveCycle"
    /\ proposals[p] = "idle"
    /\ proposals' = [proposals EXCEPT ![p] = "pending"]
    /\ observed' = [observed EXCEPT ![p] = trades_executed]
    /\ UNCHANGED <<enfState, cycle_id, mode, cap, trades_executed, results,
                   ordersExecuted>>
    /\ UNCHANGED outsideEnforcer

\* Variant of Evaluate that tests the cap against the count read when the
\* order was proposed and increments afterwards (check and increment apart).
Evaluate_Stale(p) ==
    /\ enfState = "ActiveCycle"
    /\ proposals[p] = "pending"
    /\ LET d == Decide(mode, observed[p], cap)
       IN  /\ trades_executed' = IF d.result = "Permitted"
                                 THEN trades_executed + 1
                                 ELSE trades_executed
           /\ results' = Append(results, d.result)
           /\ proposals' = [proposals EXCEPT ![p] = d.result]
    /\ UNCHANGED <<enfState, cycle_id, mode, cap, observed, ordersExecuted>>
    /\ UNCHANGED outsideEnforcer

\* The enforcer answers proposal p: the rules are evaluated and, when the
\* order is permitted, trades_executed is incremented in the same step.
Evaluate(p) ==
    /\ enfState = "ActiveCycle"
    /\ proposals[p] = "pending"
    /\ LET d == Decide(mode, trades_executed, cap)
       IN  /\ trades_executed' = d.trades_executed
           /\ results' = Append(results, d.result)
           /\ proposals' = [proposals EXCEPT ![p] = d.result]
    /\ UNCHANGED <<enfState, cycle_id, mode, cap, observed, ordersExecuted>>
    /\ UNCHANGED outsideEnforcer

\* The executor sends a permitted order to the venue.
ExecuteOrder(p) ==
    /\ enfState = "ActiveCycle"
    /\ proposals[p] = "Permitted"
    /\ proposals' = [proposals EXCEPT ![p] = "executed"]
    /\ ordersExecuted' = ordersExecuted + 1
    /\ UNCHANGED <<enfState, cycle_id, mode, cap, trades_executed, observed,
                   results>>
    /\ UNCHANGED outsideEnforcer

\* ActiveCycle -> Completed: the executor has no proposal outstanding.
CompleteCycle ==
    /\ enfState = "ActiveCycle"
    /\ \A p \in Proposers : proposals[p] \notin {"pending", "Permitted"}
    /\ enfState' = "Completed"
    /\ UNCHANGED <<cycle_id, mode, cap, trades_executed, proposals, observed,
                   results, ordersExecuted>>
    /\ UNCHANGED outsideEnforcer

\* Variant of AbortCycle that takes back the last permission on a kill.
AbortCycle_Rollback ==
    /\ enfState = "ActiveCycle"
    /\ enfState' = "Aborted"
    /\ trades_executed' = IF trades_executed > 0 THEN trades_executed - 1 ELSE 0
    /\ UNCHANGED <<cycle_id, mode, cap, proposals, observed, results,
                   ordersExecuted>>
    /\ UNCHANGED outsideEnforcer

\* ActiveCycle -> Aborted: the executor is killed mid-cycle; trades_executed
\* stays at its last incremented value.
AbortCycle ==
    /\ enfState = "ActiveCycle"
    /\ enfState' = "Aborted"
    /\ UNCHANGED <<cycle_id, mode, cap, trades_executed, proposals, observed,
                   results, ordersExecuted>>
    /\ UNCHANGED outsideEnforcer

NextEnforcer ==
    \/ StartCycle
    \/ \E p \in Proposers : Propose(p)
    \/ \E p \in Proposers : Evaluate(p)
    \/ \E p \in Proposers : ExecuteOrder(p)
    \/ CompleteCycle
    \/ AbortCycle

SpecEnforcer == InitEnforcer /\ [][NextEnforcer]_vars

Answered(r) == {p \in Proposers : proposals[p] = r}

\* C4: within one trading cycle trades_executed never decreases and never
\* exceeds cap.
C4_TradesMonotoneAndCapped ==
    /\ [](trades_executed <= cap)
    /\ [][cycle_id' = cycle_id => trades_executed' >= trades_executed]_vars

\* Witness for C4: a live cycle has used up its cap and refused a further
\* proposal.
C4_Witness ==
    /\ mode = "live"
    /\ cap >= 1
    /\ trades_executed = cap
    /\ \E i \in DOMAIN results : results[i] = "CapExceeded"

\* C5: for any interleaving of concurrent proposals within one live cycle at
\* most cap proposals are permitted; proposals that both saw a free slot
\* when they were made do not both proceed when only one slot remains.
C5_PermittedAtMostCap ==
    enfState # "Idle" =>
        /\ Cardinality(Answered("Permitted") \cup Answered("executed")) <= cap
        /\ ordersExecuted <= cap
        /\ \A p, q \in Proposers :
             (p # q /\ mode = "live" /\ observed[p] = cap - 1
                    /\ observed[q] = cap - 1
                    /\ proposals[p] \in {"Permitted", "executed"})
             => proposals[q] \notin {"Permitted", "executed"}

\* Witness for C5: two proposals were both made while one slot remained; one
\* was permitted and the other refused.
C5_Witness ==
    \E p, q \in Proposers :
        /\ p # q
        /\ mode = "live"
        /\ cap >= 1
        /\ observed[p] = cap - 1
        /\ observed[q] = cap - 1
        /\ proposals[p] \in {"Permitted", "executed"}
        /\ proposals[q] = "CapExceeded"

\* C6: in mode live_readonly every proposal is refused with
\* Refused::ReadOnly and trades_executed is left unchanged.
C6_ReadOnlyRefused ==
    (enfState # "Idle" /\ mode = "live_readonly")
    => /\ \A i \in DOMAIN results : results[i] = "ReadOnly"
       /\ trades_executed = 0

\* C7: with the rules evaluated in their stated order, every proposal made
\* in a mode other than live is recorded as non-executing and succeeds
\* locally: no order is executed and trades_executed is not incremented.
C7_NonLiveRecordedOnly ==
    (enfState # "Idle" /\ mode # "live")
    => /\ \A i \in DOMAIN results : results[i] = "Recorded"
       /\ \A p \in Proposers : proposals[p] \in {"idle", "pending", "Recorded"}
       /\ trades_executed = 0
       /\ ordersExecuted = 0

\* Witness for C7: proposals were answered in a read-only live cycle.
C7_Witness ==
    /\ mode = "live_readonly"
    /\ Len(results) >= 2

\* C8: in live mode with cap c the first min(n, c) of n proposals are
\* Permitted and every later one is Refused::CapExceeded.
C8_FirstCapPermitted ==
    (enfState # "Idle" /\ mode = "live")
    => /\ \A i \in DOMAIN results :
            results[i] = IF i <= cap THEN "Permitted" ELSE "CapExceeded"
       /\ trades_executed = IF Len(results) <= cap THEN Len(results) ELSE cap

\* Witness for C8: cap = 1 and three proposals.
C8_Witness ==
    /\ mode = "live"
    /\ cap = 1
    /\ results = <<"Permitted", "CapExceeded", "CapExceeded">>

----------------------------------------------------------------------------
(* Shadow ledger and funds reconciliation (spec 4.3, 4.4) *)

\* Last clock value of a run.
MaxTime == 2

\* Orders whose events the streaming helper may report.
MaxOrders == 2

\* Ledger events accepted in a run.
MaxEvents == 3

\* Redeliveries of accepted events in a run.
MaxRedeliveries == 1

Orders == 1..MaxOrders

\* Amounts are in cents.  Odd orders are sells (no reserve, proceeds of
\* 1200.00), even orders are buys (300.00 reserved and spent).
OrderReserve(o) == IF o % 2 = 0 THEN 30000 ELSE 0

OrderFillCash(o) == IF o % 2 = 0 THEN -30000 ELSE 120000

KindIndex(kind) ==
    IF kind = "order_placed" THEN 1 ELSE IF kind = "order_filled" THEN 2 ELSE 3

\* The LedgerEvent the streaming helper produces for order o.
Event(o, kind, t) ==
    [event_id |-> 3 * (o - 1) + KindIndex(kind),
     order_id |-> o,
     occurred_at |-> t,
     kind |-> kind,
     cash_delta |-> IF kind = "order_filled" THEN OrderFillCash(o) ELSE 0,
     reserve_delta |-> IF kind = "order_placed" THEN OrderReserve(o)
                       ELSE -OrderReserve(o)]

\* BrokerSnapshots a poll may return (cash_balance, buying_power and the
\* venue's own funds-for-trading figure, each possibly missing).
SnapshotSamples ==
    {[cash_balance |-> None, buying_power |-> None, explicit |-> None],
     [cash_balance |-> Some(50000), buying_power |-> None, explicit |-> None],
     [cash_balance |-> Some(0), buying_power |-> Some(80000), explicit |-> None],
     [cash_balance |-> Some(50000), buying_power |-> Some(80000),
      explicit |-> Some(70000)]}

\* Variant of LedgerAppend that accepts every delivery.
LedgerAppend_NoDedupe(led, e) == Append(led, e)

\* ShadowLedger.append: an event_id seen before is silently discarded.
LedgerAppend(led, e) ==
    IF \E i \in DOMAIN led : led[i].event_id = e.event_id
    THEN led
    ELSE Append(led, e)

RECURSIVE deltasSince_After(_, _)
\* Variant of deltasSince that leaves out events that occurred exactly at
\* the epoch.
deltasSince_After(led, epoch) ==
    IF led = <<>>
    THEN [cash_delta_sum |-> 0, reserve_delta_sum |-> 0]
    ELSE LET rest == deltasSince_After(Tail(led), epoch)
             e == Head(led)
         IN  IF e.occurred_at > epoch
             THEN [cash_delta_sum |-> rest.cash_delta_sum + e.cash_delta,
                   reserve_delta_sum |-> rest.reserve_delta_sum + e.reserve_delta]
             ELSE rest

RECURSIVE deltasSince(_, _)
\* ShadowLedger.deltasSince: fold of the accepted events with
\* occurred_at >= epoch.
deltasSince(led, epoch) ==
    IF led = <<>>
    THEN [cash_delta_sum |-> 0, reserve_delta_sum |-> 0]
    ELSE LET rest == deltasSince(Tail(led), epoch)
             e == Head(led)
         IN  IF e.occurred_at >= epoch
             THEN [cash_delta_sum |-> rest.cash_delta_sum + e.cash_delta,
                   reserve_delta_sum |-> rest.reserve_delta_sum + e.reserve_delta]
             ELSE rest

\* a ?? b
Nullish(a, b) == IF a # None THEN a ELSE b

\* The fallback chain of spec 4.4: explicit, derived_cash, the snapshot's
\* buying power, settled_cash, 0; the first value that is not missing.
EffectiveChain(explicit, derived_cash, buying_power, settled_cash) ==
    Nullish(explicit,
        Nullish(derived_cash,
            Nullish(buying_power,
                Nullish(settled_cash, Some(0)))))[1]

\* FundsReconciler.reconcile.  Without streaming there are no ledger deltas
\* and derived_cash is missing.
Reconcile(snap, led, streamOn) ==
    LET d == deltasSince(led, snap.as_of)
        settled == snap.cash_balance
        unsettled == IF streamOn THEN Some(d.cash_delta_sum) ELSE None
        reserve == IF streamOn THEN Some(d.reserve_delta_sum) ELSE None
        derived == IF streamOn /\ settled # None
                   THEN Some(settled[1] + d.cash_delta_sum - d.reserve_delta_sum)
                   ELSE None
    IN  [effective |-> EffectiveChain(snap.explicit, derived, snap.buying_power,
                                      settled),
         explicit |-> snap.explicit,
         derived_cash |-> derived,
         settled_cash |-> settled,
         unsettled_cash |-> unsettled,
         order_reserve |-> reserve,
         as_of |-> snap.as_of]

\* The view is recomputed on every new BrokerSnapshot or LedgerEvent.
Recompute(snap, led) ==
    IF snap = None THEN None ELSE Some(Reconcile(snap[1], led, streaming))

HasEvent(o, kind) ==
    \E i \in DOMAIN ledger : ledger[i].order_id = o /\ ledger[i].kind = kind

InitFunds ==
    /\ LaunchAtCycle
    /\ EnforcerIdle
    /\ now = 0
    /\ streaming \in BOOLEAN
    /\ snapshot = None
    /\ ledger = <<>>
    /\ view = None
    /\ discarded = 0
    /\ reading = None
    /\ readView = None
    /\ data = None
    /\ fundsAvailable = None

Tick ==
    /\ now < MaxTime
    /\ now' = now + 1
    /\ UNCHANGED <<streaming, snapshot, ledger, view>>
    /\ UNCHANGED <<discarded, readerVars>>
    /\ UNCHANGED outsideFunds

\* A successful poll: the new BrokerSnapshot replaces the old one wholesale.
Poll ==
    /\ \E b \in SnapshotSamples :
         snapshot' = Some([as_of |-> now, cash_balance |-> b.cash_balance,
                           buying_power |-> b.buying_power,
                           explicit |-> b.explicit])
    /\ view' = Recompute(snapshot', ledger)
    /\ UNCHANGED <<now, streaming, ledger>>
    /\ UNCHANGED <<discarded, readerVars>>
    /\ UNCHANGED outsideFunds

\* The streaming helper reports that order o was placed.
PlaceOrder(o) ==
    /\ streaming
    /\ "stream" \in running
    /\ Len(ledger) < MaxEvents
    /\ ~HasEvent(o, "order_placed")
    /\ ledger' = LedgerAppend(ledger, Event(o, "order_placed", now))
    /\ view' = Recompute(snapshot, ledger')
    /\ UNCHANGED <<now, streaming, snapshot>>
    /\ UNCHANGED <<discarded, readerVars>>
    /\ UNCHANGED outsideFunds

\* The streaming helper reports a fill of the open order o.
FillOrder(o) ==
    /\ streaming
    /\ "stream" \in running
    /\ Len(ledger) < MaxEvents
    /\ HasEvent(o, "order_placed")
    /\ ~HasEvent(o, "order_filled")
    /\ ~HasEvent(o, "order_canceled")
    /\ ledger' = LedgerAppend(ledger, Event(o, "order_filled", now))
    /\ view' = Recompute(snapshot, ledger')
    /\ UNCHANGED <<now, streaming, snapshot>>
    /\ UNCHANGED <<discarded, readerVars>>
    /\ UNCHANGED outsideFunds

\* The streaming helper reports that the open order o was canceled.
CancelOrder(o) ==
    /\ streaming
    /\ "stream" \in running
    /\ Len(ledger) < MaxEvents
    /\ HasEvent(o, "order_placed")
    /\ ~HasEvent(o, "order_filled")
    /\ ~HasEvent(o, "order_canceled")
    /\ ledger' = LedgerAppend(ledger, Event(o, "order_canceled", now))
    /\ view' = Recompute(snapshot, ledger')
    /\ UNCHANGED <<now, streaming, snapshot>>
    /\ UNCHANGED <<discarded, readerVars>>
    /\ UNCHANGED outsideFunds

\* The transport delivers an already accepted event again (at-least-once
\* delivery); the ledger counts the duplicates it discards.
Redeliver ==
    /\ streaming
    /\ "stream" \in running
    /\ discarded < MaxRedeliveries
    /\ \E i \in DOMAIN ledger : ledger' = LedgerAppend(ledger, ledger[i])
    /\ discarded' = IF Len(ledger') = Len(ledger) THEN discarded + 1
                    ELSE discarded
    /\ view' = Recompute(snapshot, ledger')
    /\ UNCHANGED <<now, streaming, snapshot>>
    /\ UNCHANGED readerVars
    /\ UNCHANGED outsideFunds

NextFunds ==
    \/ Tick
    \/ Poll
    \/ \E o \in Orders : PlaceOrder(o)
    \/ \E o \in Orders : FillOrder(o)
    \/ \E o \in Orders : CancelOrder(o)
    \/ Redeliver

SpecFunds == InitFunds /\ [][NextFunds]_vars

\* The accepted events of the given kinds that occurred at or after epoch.
EventsSince(kinds, epoch) ==
    {ledger[i] : i \in {j \in DOMAIN ledger :
                          /\ ledger[j].kind \in kinds
                          /\ ledger[j].occurred_at >= epoch}}

RECURSIVE SumCash(_)
SumCash(S) ==
    IF S = {} THEN 0
    ELSE LET e == CHOOSE x \in S : TRUE IN e.cash_delta + SumCash(S \ {e})

RECURSIVE SumReserved(_)
SumReserved(S) ==
    IF S = {} THEN 0
    ELSE LET e == CHOOSE x \in S : TRUE
         IN  OrderReserve(e.order_id) + SumReserved(S \ {e})

\* C10: derived_cash = settled_cash + unsettled_cash - order_reserve, where
\* settled_cash is the snapshot's cash_balance, unsettled_cash sums the fills
\* at or after snapshot.as_of, and order_reserve sums the reserves of the
\* orders placed since as_of less those canceled or filled since.
C10_DerivedCash ==
    (view # None /\ view[1].derived_cash # None)
    => LET v == view[1]
           epoch == snapshot[1].as_of
           fills == SumCash(EventsSince({"order_filled"}, epoch))
           reserve == SumReserved(EventsSince({"order_placed"}, epoch))
                      - SumReserved(EventsSince({"order_canceled",
                                                 "order_filled"}, epoch))
       IN  /\ v.settled_cash = snapshot[1].cash_balance
           /\ v.unsettled_cash = Some(fills)
           /\ v.order_reserve = Some(reserve)
           /\ v.derived_cash = Some(v.settled_cash[1] + fills - reserve)

\* Witness for C10 (Scenario B): cash_balance 500.00 and one fill of
\* +1200.00 after the snapshot give derived_cash 1700.00.
C10_Witness ==
    /\ view # None
    /\ snapshot[1].cash_balance = Some(50000)
    /\ \E i \in DOMAIN ledger :
         /\ ledger[i].kind = "order_filled"
         /\ ledger[i].cash_delta = 120000
         /\ ledger[i].occurred_at >= snapshot[1].as_of
         /\ EventsSince({"order_placed", "order_filled", "order_canceled"},
                        snapshot[1].as_of) = {ledger[i]}
    /\ view[1].derived_cash = Some(170000)

----------------------------------------------------------------------------
(* Reads of the reconciled view and staleness (spec 4.4, 5) *)

\* Last clock value of a run of the staleness specification.
MaxClock == 4

\* The clock counts poll intervals.
PollInterval == 1

\* staleness_multiplier, default 3.
StalenessMultiplier == 3

\* Variant of Stale that already flags a snapshot aged exactly the window.
Stale_AtLeast(t, as_of) == t - as_of >= StalenessMultiplier * PollInterval

\* stale = now - snapshot.as_of > staleness_multiplier * poll_interval
Stale(t, as_of) == t - as_of > StalenessMultiplier * PollInterval

\* The ReconciledFundsView a read at time t returns for the pair (snap, led).
ViewAt(snap, led, streamOn, t) ==
    Reconcile(snap, led, streamOn)
        @@ [stale |-> Stale(t, snap.as_of), computed_at |-> t]

\* The clock of the staleness specification advances by one poll interval.
Elapse ==
    /\ now < MaxClock
    /\ now' = now + 1
    /\ UNCHANGED <<streaming, snapshot, ledger, view, discarded, readerVars>>
    /\ UNCHANGED outsideFunds

\* The dashboard's read path takes the read lock and copies the latest
\* snapshot and the ledger as one pair; writers go on meanwhile.
ReadBegin ==
    /\ "dashboard" \in running
    /\ snapshot # None
    /\ reading = None \/ readView # None
    /\ reading' = Some([snapshot |-> snapshot[1], ledger |-> ledger])
    /\ readView' = None
    /\ UNCHANGED <<now, streaming, snapshot, ledger, view, discarded>>
    /\ UNCHANGED outsideFunds

\* Variant of ReadEnd that pairs the deltas of the copied pair with the
\* snapshot that is the latest when the view is built.
ReadEnd_Torn ==
    /\ reading # None
    /\ readView = None
    /\ readView' =
         Some([ViewAt(reading[1].snapshot, reading[1].ledger, streaming, now)
                  EXCEPT !.as_of = snapshot[1].as_of,
                         !.settled_cash = snapshot[1].cash_balance,
                         !.explicit = snapshot[1].explicit])
    /\ UNCHANGED <<now, streaming, snapshot, ledger, view, discarded, reading>>
    /\ UNCHANGED outsideFunds

\* The read builds its view from the pair it copied.
ReadEnd ==
    /\ reading # None
    /\ readView = None
    /\ readView' =
         Some(ViewAt(reading[1].snapshot, reading[1].ledger, streaming, now))
    /\ UNCHANGED <<now, streaming, snapshot, ledger, view, discarded, reading>>
    /\ UNCHANGED outsideFunds

NextStale ==
    \/ Elapse
    \/ Poll
    \/ ChildExit
    \/ ReadBegin
    \/ ReadEnd

SpecStale == InitFunds /\ [][NextStale]_vars

\* The order whose events the reads are interleaved with: a buy, so that
\* both its reserve and its fill show in the deltas.
ReaderOrder == 2

NextReader ==
    \/ Tick
    \/ Poll
    \/ PlaceOrder(ReaderOrder)
    \/ FillOrder(ReaderOrder)
    \/ CancelOrder(ReaderOrder)
    \/ ReadBegin
    \/ ReadEnd

SpecReader == InitFunds /\ [][NextReader]_vars

C19_StaleAfterHelperExit ==
    (/\ exitedAt["stream"] # None
     /\ readView # None
     /\ readView[1].computed_at - exitedAt["stream"][1] > 3 * PollInterval)
    => readView[1].stale

\* led is an initial part of full.
IsPrefix(led, full) ==
    /\ Len(led) <= Len(full)
    /\ SubSeq(full, 1, Len(led)) = led

\* C20: under any interleaving of polls, ledger appends and reads, a read
\* copies the latest snapshot together with the ledger as it is at that
\* moment, and the view it returns carries that snapshot's as_of and
\* figures with the ledger deltas since that same as_of: never a newer
\* snapshot with deltas taken against an older one.
C20_CoherentPair ==
    /\ [](readView # None
          => LET v == readView[1]
                 snap == reading[1].snapshot
                 d == deltasSince(reading[1].ledger, v.as_of)
             IN  /\ v.as_of = snap.as_of
                 /\ v.settled_cash = snap.cash_balance
                 /\ v.explicit = snap.explicit
                 /\ IsPrefix(reading[1].ledger, ledger)
                 /\ snap.as_of <= snapshot[1].as_of
                 /\ streaming
                    => /\ v.unsettled_cash = Some(d.cash_delta_sum)
                       /\ v.order_reserve = Some(d.reserve_delta_sum))
    /\ [][(reading' # reading)
           => reading' = Some([snapshot |-> snapshot[1], ledger |-> ledger])]_vars

\* Witness for C20: while a read held its pair a newer snapshot arrived and
\* an event was appended; the view returned is that of the older pair, with
\* a non-zero reserve.
C20_Witness ==
    /\ readView # None
    /\ reading[1].snapshot.as_of < snapshot[1].as_of
    /\ Len(reading[1].ledger) < Len(ledger)
    /\ readView[1].order_reserve \notin {None, Some(0)}

----------------------------------------------------------------------------
(* Schwab dashboard: funds available (static/js/schwab.js) *)

\* Top-level members of the holdings document a response may carry.
ResponseFields == {"funds_available_effective", "funds_available_components",
                   "account_info", "cash_balance"}

\* Values a snapshot field may take: missing, zero, or a positive amount.
FieldValues(amount) == {None, Some(0), Some(amount)}

\* The reconciled-funds document of spec 6 built from view v and snapshot
\* snap, carrying only the members in fields.  The members
\* funds_available_for_trading (top level and under account_info) and
\* account_info.funds_available_effective are not part of that document.
Response(v, snap, fields) ==
    [funds_available_effective |->
        IF "funds_available_effective" \in fields THEN Some(v.effective)
        ELSE None,
     funds_available_for_trading |-> None,
     cash_balance |->
        IF "cash_balance" \in fields THEN snap.cash_balance ELSE None,
     account_info |->
        IF "account_info" \in fields
        THEN Some([buying_power |-> snap.buying_power,
                   funds_available_for_trading |-> None,
                   funds_available_effective |-> None])
        ELSE None,
     funds_available_components |->
        IF "funds_available_components" \in fields
        THEN Some([effective |-> Some(v.effective),
                   explicit |-> v.explicit,
                   derived_cash |-> v.derived_cash,
                   settled_cash |-> v.settled_cash,
                   unsettled_cash |-> v.unsettled_cash,
                   order_reserve |-> v.order_reserve])
        ELSE None]

\* obj?.member, for the optional objects account_info and
\* funds_available_components.
AccountInfo(d, member) ==
    IF d.account_info = None THEN None ELSE d.account_info[1][member]

Components(d, member) ==
    IF d.funds_available_components = None THEN None
    ELSE d.funds_available_components[1][member]

\* renderSchwabData, lines 140-145: const fundsAvailable = ... ?? 0.
FundsAvailable(d) ==
    Nullish(d.funds_available_effective,
        Nullish(d.funds_available_for_trading,
            Nullish(AccountInfo(d, "funds_available_for_trading"),
                Nullish(AccountInfo(d, "funds_available_effective"),
                    Nullish(d.cash_balance, Some(0))))))[1]

InitDash ==
    /\ LaunchAtCycle
    /\ EnforcerIdle
    /\ now = 0
    /\ streaming \in BOOLEAN
    /\ \E c \in FieldValues(50000), b \in FieldValues(80000),
          x \in FieldValues(70000) :
         snapshot = Some([as_of |-> 0, cash_balance |-> c, buying_power |-> b,
                          explicit |-> x])
    /\ ledger \in {<<>>, <<Event(1, "order_placed", 0),
                           Event(1, "order_filled", 0)>>}
    /\ (~streaming => ledger = <<>>)
    /\ view = Recompute(snapshot, ledger)
    /\ discarded = 0
    /\ reading = None
    /\ readView = None
    /\ data = None
    /\ fundsAvailable = None

\* refreshSchwabData with a status-success response: the document is
\* fetched and renderSchwabData computes the funds-available figure.
RefreshSchwabData ==
    /\ view # None
    /\ \E fields \in SUBSET ResponseFields :
         data' = Some(Response(view[1], snapshot[1], fields))
    /\ fundsAvailable' = Some(FundsAvailable(data'[1]))
    /\ UNCHANGED fundsVars
    /\ UNCHANGED outsideDash

NextDash ==
    \/ Poll
    \/ RefreshSchwabData

SpecDash == InitDash /\ [][NextDash]_vars

\* The first value of the chain that is not missing.
FirstPresent(links) ==
    LET k == CHOOSE i \in DOMAIN links :
                 /\ links[i] # None
                 /\ \A j \in 1..(i - 1) : links[j] = None
    IN  links[k][1]

\* C9: effective is the first present value of explicit, derived_cash, the
\* snapshot's buying power, settled_cash, 0 (a present 0 wins over later
\* links), and the funds-available figure the dashboard computes from the
\* fields of the response it has is the result of that same chain.
C9_FallbackChain ==
    /\ view # None
       => view[1].effective =
            FirstPresent(<<view[1].explicit, view[1].derived_cash,
                           snapshot[1].buying_power, view[1].settled_cash,
                           Some(0)>>)
    /\ data # None
       => fundsAvailable =
            Some(FirstPresent(<<data[1].funds_available_effective,
                                Components(data[1], "explicit"),
                                Components(data[1], "derived_cash"),
                                AccountInfo(data[1], "buying_power"),
                                Nullish(Components(data[1], "settled_cash"),
                                        data[1].cash_balance),
                                Some(0)>>))

----------------------------------------------------------------------------
(* The launchers' arguments and exported environment *)

\* Longest command line tried.
MaxArgs == 2

\* Words a command line is made of: the mode and streaming switches, --help
\* and a word no launcher knows.  (-p, -m and -c take a value and only set
\* PORT, MODEL and CADENCE.)
Options == {"--one-trade", "--multi-trade", "--no-stream", "--help",
            "--unknown"}

ArgLists == UNION {[1..n -> Options] : n \in 0..MaxArgs}

\* The case arms of each launcher's argument loop: start_live_trading.sh
\* 41-53, start_schwab_one_trade.sh 34-44, start_schwab_live_view.sh
\* (GO_LIVE_CHECKLIST.md 285-293), start_schwab_readonly.sh
\* (SCHWAB_API_SETUP.md 159-165).  test_schwab_api.sh has no loop.
KnownOptions(l) ==
    CASE l = "start_live_trading" ->
           {"--one-trade", "--multi-trade", "--no-stream", "--help"}
      [] l = "start_schwab_one_trade" ->
           {"--one-trade", "--multi-trade", "--help"}
      [] l = "start_schwab_live_view" -> {"--no-stream", "--help"}
      [] l = "start_schwab_readonly" -> {"--help"}
      [] OTHER -> {}

\* The settings a run may find in its environment (inherited, or set by
\* the .env file the pilot launchers source with set -a): each one unset
\* or set.
Inherited ==
    [DAI_MAX_TRADES : EnvMaxTrades,
     DAI_ONE_TRADE_MODE : {None, Some(0), Some(1)},
     DAI_SCHWAB_READONLY : {None, Some(0), Some(1)},
     DAI_DISABLE_AUTOMATION : {None, Some(0)}]

\* "${VAR:-d}"
OrDefault(v, d) == IF v = None THEN d ELSE v[1]

\* Variant of Exported in which the read-only launchers keep an inherited
\* DAI_SCHWAB_READONLY ("${DAI_SCHWAB_READONLY:-1}").
Exported_KeepInherited(l, e, one) ==
    IF l \in Launchers
    THEN [e EXCEPT !.DAI_SCHWAB_READONLY = Some(0),
                   !.DAI_DISABLE_AUTOMATION = Some(0),
                   !.DAI_MAX_TRADES = Some(DAI_MAX_TRADES(e.DAI_MAX_TRADES)),
                   !.DAI_ONE_TRADE_MODE = Some(one)]
    ELSE IF l = "test_schwab_api"
    THEN [e EXCEPT !.DAI_SCHWAB_READONLY =
                       Some(OrDefault(e.DAI_SCHWAB_READONLY, 1))]
    ELSE [e EXCEPT !.DAI_SCHWAB_READONLY =
                       Some(OrDefault(e.DAI_SCHWAB_READONLY, 1)),
                   !.DAI_DISABLE_AUTOMATION = Some(1)]

\* The export lines of launcher l applied to environment e, one being the
\* script's ONE_TRADE_MODE: start_live_trading.sh 120-128 and
\* start_schwab_one_trade.sh 91-98 (DAI_MAX_TRADES="${DAI_MAX_TRADES:-1}",
\* DAI_ONE_TRADE_MODE="${ONE_TRADE_MODE}"); test_schwab_api.sh
\* (GO_LIVE_CHECKLIST.md 231-233); start_schwab_live_view.sh (369-372) and
\* start_schwab_readonly.sh (SCHWAB_API_SETUP.md 286-289).
Exported(l, e, one) ==
    IF l \in Launchers
    THEN [e EXCEPT !.DAI_SCHWAB_READONLY = Some(0),
                   !.DAI_DISABLE_AUTOMATION = Some(0),
                   !.DAI_MAX_TRADES = Some(DAI_MAX_TRADES(e.DAI_MAX_TRADES)),
                   !.DAI_ONE_TRADE_MODE = Some(one)]
    ELSE IF l = "test_schwab_api"
    THEN [e EXCEPT !.DAI_SCHWAB_READONLY = Some(1)]
    ELSE [e EXCEPT !.DAI_SCHWAB_READONLY = Some(1),
                   !.DAI_DISABLE_AUTOMATION = Some(1)]

\* A run as the operator starts it: any command line, any inherited
\* settings, a fresh token file; nothing parsed, exported or started yet.
InitEnv ==
    /\ launcher \in Launchers \cup ReadOnlyLaunchers
    /\ pc = "defaults"
    /\ tokenFile = [present |-> TRUE, age |-> 0]
    /\ tokenAtStart = tokenFile
    /\ REFRESH = 1
    /\ ENABLE_STREAM = 1
    /\ trace = <<>>
    /\ trapInstalled = FALSE
    /\ started = {}
    /\ running = {}
    /\ exitCode = -1
    /\ traderAcceptsCadence \in BOOLEAN
    /\ (launcher # "start_live_trading" => traderAcceptsCadence)
    /\ traderTrap = FALSE
    /\ traceKind = <<>>
    /\ UnitsIdle
    /\ EnforcerIdle
    /\ FundsIdle
    /\ BrowserIdle
    /\ argv \in ArgLists
    /\ environ \in Inherited
    /\ ONE_TRADE_MODE = 1
    /\ childEnv = [u \in Units |-> None]

\* start_live_trading.sh 39 and start_schwab_one_trade.sh 32:
\* ONE_TRADE_MODE="${DAI_ONE_TRADE_MODE:-1}", before the argument loop.  The
\* read-only launchers have no such variable; test_schwab_api.sh does not
\* look at its arguments.
SetDefaults ==
    /\ pc = "defaults"
    /\ ONE_TRADE_MODE' = IF launcher \in Launchers
                         THEN OrDefault(environ.DAI_ONE_TRADE_MODE, 1)
                         ELSE ONE_TRADE_MODE
    /\ pc' = IF launcher = "test_schwab_api" THEN "export" ELSE "args"
    /\ UNCHANGED <<launcher, tokenFile, tokenAtStart, REFRESH, ENABLE_STREAM,
                   trace, trapInstalled, started, running, exitCode>>
    /\ UNCHANGED traderVars
    /\ UNCHANGED unitVars
    /\ UNCHANGED <<argv, environ, childEnv>>
    /\ UNCHANGED outsideScripts

\* One turn of the argument loop: an unknown word prints the usage and
\* exits 1, --help exits 0, a switch sets its variable and is shifted away.
ParseArg ==
    /\ pc = "args"
    /\ argv # <<>>
    /\ LET a == Head(argv)
       IN  IF a \notin KnownOptions(launcher)
           THEN /\ ExitWith(1)
                /\ UNCHANGED <<argv, ONE_TRADE_MODE, ENABLE_STREAM>>
           ELSE IF a = "--help"
           THEN /\ ExitWith(0)
                /\ UNCHANGED <<argv, ONE_TRADE_MODE, ENABLE_STREAM>>
           ELSE /\ argv' = Tail(argv)
                /\ ONE_TRADE_MODE' =
                     CASE a = "--one-trade" -> 1
                       [] a = "--multi-trade" -> 0
                       [] OTHER -> ONE_TRADE_MODE
                /\ ENABLE_STREAM' =
                     IF a = "--no-stream" THEN 0 ELSE ENABLE_STREAM
                /\ UNCHANGED <<pc, running, exitCode>>
    /\ UNCHANGED <<launcher, tokenFile, tokenAtStart, REFRESH, trace,
                   trapInstalled, started>>
    /\ UNCHANGED traderVars
    /\ UNCHANGED unitVars
    /\ UNCHANGED <<environ, childEnv>>
    /\ UNCHANGED outsideScripts

\* The argument loop ends.  start_schwab_readonly.sh goes on to its token
\* check and exports later; the others export next.
ParseDone ==
    /\ pc = "args"
    /\ argv = <<>>
    /\ pc' = IF launcher = "start_schwab_readonly" THEN "start" ELSE "export"
    /\ UNCHANGED <<launcher, tokenFile, tokenAtStart, REFRESH, ENABLE_STREAM,
                   trace, trapInstalled, started, running, exitCode>>
    /\ UNCHANGED traderVars
    /\ UNCHANGED unitVars
    /\ UNCHANGED outsideLaunch

\* The launcher's export lines.  test_schwab_api.sh and
\* start_schwab_readonly.sh start the dashboard next; the others go on to
\* their token check or trap.
Export ==
    /\ pc = "export"
    /\ environ' = Exported(launcher, environ, ONE_TRADE_MODE)
    /\ pc' = IF launcher \in {"test_schwab_api", "start_schwab_readonly"}
             THEN "ro_dash" ELSE "start"
    /\ UNCHANGED <<launcher, tokenFile, tokenAtStart, REFRESH, ENABLE_STREAM,
                   trace, trapInstalled, started, running, exitCode>>
    /\ UNCHANGED traderVars
    /\ UNCHANGED unitVars
    /\ UNCHANGED <<argv, ONE_TRADE_MODE, childEnv>>
    /\ UNCHANGED outsideScripts

\* The last line of each read-only launcher: python dashboard_server.py in
\* the foreground (GO_LIVE_CHECKLIST.md 261 and 412, SCHWAB_API_SETUP.md 299).
RunDashForeground ==
    /\ pc = "ro_dash"
    /\ Launch("dashboard")
    /\ pc' = "ro_run"
    /\ UNCHANGED <<launcher, tokenFile, tokenAtStart, REFRESH, ENABLE_STREAM,
                   trace, trapInstalled, exitCode>>
    /\ UNCHANGED traderVars
    /\ UNCHANGED unitVars
    /\ UNCHANGED outsideScripts

\* The foreground dashboard returns: the script has no further line and
\* ends with the dashboard's status; its EXIT trap, if any, runs.
DashForegroundExit ==
    /\ pc = "ro_run"
    /\ \E status \in {0, 1} : ExitFrom(status, running \ {"dashboard"})
    /\ UNCHANGED <<launcher, tokenFile, tokenAtStart, REFRESH, ENABLE_STREAM,
                   trace, trapInstalled, started>>
    /\ UNCHANGED traderVars
    /\ UNCHANGED unitVars
    /\ UNCHANGED outsideLaunch

NextEnv ==
    \/ SetDefaults
    \/ ParseArg
    \/ ParseDone
    \/ Export
    \/ TokenCheck
    \/ MaybeRefresh
    \/ RefreshRm
    \/ RefreshAuth
    \/ Validate
    \/ InstallTrap
    \/ StartStream
    \/ StartDash
    \/ RunCycle
    \/ CycleExit
    \/ LiveInstallTrap
    \/ LiveStartStream
    \/ LiveDelegate
    \/ TraderStartDash
    \/ TraderStartAuto
    \/ TraderInstallTrap
    \/ RunDashForeground
    \/ DashForegroundExit

SpecEnv == InitEnv /\ [][NextEnv]_vars

\* C21: the read-only launchers (test_schwab_api.sh,
\* start_schwab_live_view.sh, start_schwab_readonly.sh) never start the
\* trading automation or a trading cycle, and the dashboard server is
\* started with DAI_SCHWAB_READONLY=1 in its environment, whatever the
\* command line and the inherited settings.
C21_ReadOnlyLaunchersNeverTrade ==
    launcher \in ReadOnlyLaunchers
    => /\ started \cap {"cycle", "automation"} = {}
       /\ childEnv["cycle"] = None
       /\ childEnv["automation"] = None
       /\ (pc \in {"ro_dash", "ro_run"}
           => environ.DAI_SCHWAB_READONLY = Some(1))
       /\ ("dashboard" \in started
           => /\ childEnv["dashboard"] # None
              /\ childEnv["dashboard"][1].DAI_SCHWAB_READONLY = Some(1))

\* Witness for C21: start_schwab_readonly.sh, run with DAI_SCHWAB_READONLY=0
\* inherited, has started its streaming helper with that setting and then
\* the dashboard with DAI_SCHWAB_READONLY=1.
C21_Witness ==
    /\ launcher = "start_schwab_readonly"
    /\ "dashboard" \in running
    /\ childEnv["stream"] # None
    /\ childEnv["stream"][1].DAI_SCHWAB_READONLY = Some(0)
    /\ childEnv["dashboard"][1].DAI_SCHWAB_READONLY = Some(1)

\* C22: a run of a live pilot launcher in one-trade mode has a trade cap of
\* one: the dashboard, the automation and the trading cycle are started
\* with DAI_MAX_TRADES=1 and DAI_ONE_TRADE_MODE=1.
C22_OneTradeCapOfOne ==
    \A c \in {"dashboard", "automation", "cycle"} :
        (launcher \in Launchers /\ ONE_TRADE_MODE = 1 /\ childEnv[c] # None)
        => /\ childEnv[c][1].DAI_ONE_TRADE_MODE = Some(1)
           /\ childEnv[c][1].DAI_MAX_TRADES = Some(1)

----------------------------------------------------------------------------
(* Schwab page: refreshSchwabData (static/js/schwab.js 241-272) *)

\* Requests the model lets be in flight at once.
MaxRequests == 2

\* The sections hideSchwabSections hides (lines 116-119).
Sections == {"schwab-summary", "holdings-section", "error-section",
             "simulation-warning"}

\* data.status: the three values the code tests for, and "unexpected" for
\* any other value or a missing status.
Statuses == {"success", "error", "disabled", "unexpected"}

\* What the holdings request may resolve with.  positionsOk is false when
\* an entry of data.positions is null, so that p.gain_loss (line 221) throws.
Responses == [enabled : BOOLEAN, status : Statuses, positionsOk : BOOLEAN]

\* Who calls refreshSchwabData: the DOMContentLoaded handler (270), the
\* 30-second interval (271) and the refresh button.
Callers == {"load", "timer", "button"}

\* Lines 247-263 and the catch of 264-267: the sections displayed once
\* the response r has been handled.  renderSchwabData shows the summary
\* (214) before it walks the positions, and the holdings section (239) after.
SectionsAfter(r) ==
    IF ~r.enabled THEN {"error-section"}
    ELSE IF r.status = "error" THEN {"error-section"}
    ELSE IF r.status = "disabled" THEN {"simulation-warning"}
    ELSE IF r.status = "success"
    THEN IF r.positionsOk THEN {"schwab-summary", "holdings-section"}
         ELSE {"schwab-summary", "error-section"}
    ELSE {"error-section"}

\* The response reaches renderSchwabData (line 260).
Renders(r) == r.enabled /\ r.status = "success"

\* The page of a running dashboard before its DOMContentLoaded handler has
\* run; the server holds one reconciled view.
InitPage ==
    /\ LaunchAtCycle
    /\ EnforcerIdle
    /\ now = 0
    /\ streaming = TRUE
    /\ \E x \in {None, Some(70000)} :
         snapshot = Some([as_of |-> 0, cash_balance |-> Some(50000),
                          buying_power |-> Some(80000), explicit |-> x])
    /\ ledger = <<>>
    /\ view = Recompute(snapshot, ledger)
    /\ discarded = 0
    /\ reading = None
    /\ readView = None
    /\ data = None
    /\ fundsAvailable = None

\* Variant of RefreshCall without the schwabLoading test of line 242.
RefreshCall_NoGuard(by) ==
    /\ inFlight < MaxRequests
    /\ schwabLoading' = TRUE
    /\ btnDisabled' = TRUE
    /\ shown' = {}
    /\ inFlight' = inFlight + 1
    /\ lastCall' = Some([by |-> by, fetched |-> TRUE])
    /\ UNCHANGED <<lastSettle, dashVars, sortVars>>
    /\ UNCHANGED fundsVars
    /\ UNCHANGED <<launchVars, enfVars, envVars>>

\* refreshSchwabData up to its await (lines 242-245): return at once while
\* schwabLoading is set; else set it (disabling the button), hide the
\* sections and issue the request.
RefreshCall(by) ==
    /\ IF schwabLoading
       THEN /\ lastCall' = Some([by |-> by, fetched |-> FALSE])
            /\ UNCHANGED <<schwabLoading, btnDisabled, shown, inFlight>>
       ELSE /\ inFlight < MaxRequests
            /\ schwabLoading' = TRUE
            /\ btnDisabled' = TRUE
            /\ shown' = {}
            /\ inFlight' = inFlight + 1
            /\ lastCall' = Some([by |-> by, fetched |-> TRUE])
    /\ UNCHANGED <<lastSettle, dashVars, sortVars>>
    /\ UNCHANGED fundsVars
    /\ UNCHANGED <<launchVars, enfVars, envVars>>

\* Lines 269-270: the DOMContentLoaded handler's first refresh.
PageLoad ==
    /\ lastCall = None
    /\ RefreshCall("load")

\* Line 271: the interval's callback, which tests schwabLoading itself
\* before calling.
TimerTick ==
    /\ lastCall # None
    /\ RefreshCall("timer")

\* The refresh button's handler.
ButtonClick ==
    /\ lastCall # None
    /\ RefreshCall("button")

\* Variant of FetchReject whose catch does not clear schwabLoading.
FetchReject_KeepLoading ==
    /\ inFlight > 0
    /\ inFlight' = inFlight - 1
    /\ shown' = shown \cup {"error-section"}
    /\ lastSettle' = Some([outcome |-> "rejected", response |-> None])
    /\ UNCHANGED <<schwabLoading, btnDisabled, lastCall, dashVars, sortVars>>
    /\ UNCHANGED fundsVars
    /\ UNCHANGED <<launchVars, enfVars, envVars>>

\* The request fails (network error, a status that is not ok, a body that
\* is not JSON: feedback.js 193-197): the catch of lines 264-267.
FetchReject ==
    /\ inFlight > 0
    /\ inFlight' = inFlight - 1
    /\ schwabLoading' = FALSE
    /\ btnDisabled' = FALSE
    /\ shown' = shown \cup {"error-section"}
    /\ lastSettle' = Some([outcome |-> "rejected", response |-> None])
    /\ UNCHANGED <<lastCall, dashVars, sortVars>>
    /\ UNCHANGED fundsVars
    /\ UNCHANGED <<launchVars, enfVars, envVars>>

\* The request resolves with a document (lines 246-263): schwabLoading is
\* cleared first; a success document is rendered, and an exception thrown
\* while rendering ends in the catch of lines 264-267.
FetchResolve ==
    /\ inFlight > 0
    /\ view # None
    /\ inFlight' = inFlight - 1
    /\ schwabLoading' = FALSE
    /\ btnDisabled' = FALSE
    /\ \E r \in Responses, fields \in SUBSET ResponseFields :
         /\ shown' = shown \cup SectionsAfter(r)
         /\ lastSettle' =
              Some([outcome |-> IF Renders(r) /\ ~r.positionsOk THEN "threw"
                                ELSE "resolved",
                    response |-> Some(r)])
         /\ IF Renders(r)
            THEN /\ data' = Some(Response(view[1], snapshot[1], fields))
                 /\ fundsAvailable' = Some(FundsAvailable(data'[1]))
            ELSE UNCHANGED dashVars
    /\ UNCHANGED <<lastCall, sortVars>>
    /\ UNCHANGED fundsVars
    /\ UNCHANGED <<launchVars, enfVars, envVars>>

NextPage ==
    \/ PageLoad
    \/ TimerTick
    \/ ButtonClick
    \/ FetchReject
    \/ FetchResolve

SpecPage == InitPage /\ [][NextPage]_vars

\* C23: once a request has settled, the error section is displayed only
\* when there is no data at all (the request failed, the integration is not
\* enabled, or the status is error); and whenever the response is enabled
\* with status success the summary is displayed, the error section is not,
\* and the funds-available figure is the first present value of the
\* priority chain over the fields the response carries.
C23_ErrorOnlyWithoutData ==
    (lastSettle # None /\ ~schwabLoading)
    => LET s == lastSettle[1]
       IN  /\ "error-section" \in shown
              => \/ s.outcome = "rejected"
                 \/ ~s.response[1].enabled
                 \/ s.response[1].status = "error"
           /\ (s.response # None /\ Renders(s.response[1]))
              => /\ "schwab-summary" \in shown
                 /\ "error-section" \notin shown
                 /\ fundsAvailable =
                      Some(FirstPresent(
                             <<data[1].funds_available_effective,
                               Components(data[1], "explicit"),
                               Components(data[1], "derived_cash"),
                               AccountInfo(data[1], "buying_power"),
                               Nullish(Components(data[1], "settled_cash"),
                                       data[1].cash_balance),
                               Some(0)>>))

\* C25: at most one holdings request is in flight at any time, and a call
\* of refreshSchwabData made while schwabLoading is set, whoever makes it,
\* issues no request and changes nothing that is displayed.
C25_OneRequestInFlight ==
    /\ [](inFlight <= 1)
    /\ [][(schwabLoading /\ lastCall' # lastCall)
           => /\ ~lastCall'[1].fetched
              /\ UNCHANGED <<inFlight, shown, schwabLoading, btnDisabled,
                             lastSettle, dashVars>>]_vars

\* Witness for C25: the interval fired while a request was in flight and
\* returned without a second request.
C25_Witness ==
    /\ inFlight = 1
    /\ schwabLoading
    /\ lastCall = Some([by |-> "timer", fetched |-> FALSE])

\* C26: schwabLoading is set exactly while a holdings request is in flight
\* and the refresh button is disabled exactly then: whenever a request
\* settles (resolving with any document, rejecting, or with rendering
\* throwing) the flag is clear and the button enabled afterwards, and a
\* call made while the flag is clear starts a new request.
C26_LoadingOnlyWhileInFlight ==
    /\ [](schwabLoading <=> inFlight > 0)
    /\ [](btnDisabled <=> schwabLoading)
    /\ [][inFlight' < inFlight => (~schwabLoading' /\ ~btnDisabled')]_vars
    /\ [][(~schwabLoading /\ lastCall' # lastCall)
           => (lastCall'[1].fetched /\ inFlight' = 1)]_vars

\* Witness for C26: rendering a response threw, and the next tick of the
\* interval has started a new request.
C26_Witness ==
    /\ lastSettle # None
    /\ lastSettle[1].outcome = "threw"
    /\ lastCall = Some([by |-> "timer", fetched |-> TRUE])
    /\ schwabLoading
    /\ inFlight = 1

----------------------------------------------------------------------------
(* Trade outcomes table: sorting (static/js/feedback.js 100-191) *)

\* Successful loads of the trade outcomes the model follows.
MaxLoads == 3

\* The columns sortOutcomes knows (lines 164-175).
Columns == {"ticker", "sell_date", "shares", "purchase_price", "sell_price",
            "net_gain_dollars", "gain_loss_pct", "category", "hold_days"}

\* The body of one click listener (lines 147-152): toggle the direction of
\* the current column, or move to the clicked column ascending.
ClickHandler(sort, column) ==
    IF sort.column = column
    THEN [sort EXCEPT !.direction = IF @ = "asc" THEN "desc" ELSE "asc"]
    ELSE [column |-> column, direction |-> "asc"]

\* A click dispatches to every listener registered on the header, in
\* order of registration.
RECURSIVE RunListeners(_, _, _)
RunListeners(sort, column, n) ==
    IF n = 0 THEN sort
    ELSE RunListeners(ClickHandler(sort, column), column, n - 1)

\* The feedback page once loaded, before its first refresh.
InitSort ==
    /\ LaunchAtCycle
    /\ EnforcerIdle
    /\ FundsIdle

\* loadTradeOutcomes (lines 102-113), called on page load and by the
\* 10-second interval (183-191): when the request yields an array that
\* renders, the body of the table is rewritten and setupTableSorting adds
\* one more click listener to every sortable header (the headers are not
\* rewritten); a failed request, another document or a row that fails to
\* render leaves the listeners as they are.
LoadTradeOutcomes ==
    /\ \E ok \in BOOLEAN :
         IF ok
         THEN /\ listeners < MaxLoads
              /\ listeners' = listeners + 1
         ELSE UNCHANGED listeners
    /\ UNCHANGED <<currentSort, lastClick, pageVars>>
    /\ UNCHANGED <<launchVars, enfVars, fundsVars, dashVars, envVars>>

\* One click on a sortable header: every listener registered on it runs.
Click ==
    /\ listeners >= 1
    /\ \E column \in Columns :
         /\ currentSort' = RunListeners(currentSort, column, listeners)
         /\ lastClick' = Some([column |-> column, before |-> currentSort,
                               ran |-> listeners])
    /\ UNCHANGED <<listeners, pageVars>>
    /\ UNCHANGED <<launchVars, enfVars, fundsVars, dashVars, envVars>>

NextSort ==
    \/ LoadTradeOutcomes
    \/ Click

SpecSort == InitSort /\ [][NextSort]_vars

\* C27: after a click on a sortable header the sort state is the state
\* before the click changed exactly once: the direction toggled when the
\* clicked column was the current one, otherwise the clicked column
\* ascending, however many refreshes of the table preceded the click.
C27_ClickChangesSortOnce ==
    lastClick # None
    => currentSort = ClickHandler(lastClick[1].before, lastClick[1].column)

----------------------------------------------------------------------------
(* Launch order, EXIT traps and delegation *)

\* C24: the units are launched in the order streaming helper, dashboard,
\* trading cycle: the dashboard is never launched before the helper, and
\* the cycle never before both long-running units have been launched.
C24_LaunchOrder ==
    /\ [][("dashboard" \in started' \ started
           /\ launcher = "start_schwab_one_trade")
          => "stream" \in started]_vars
    /\ [][("cycle" \in started' \ started)
          => {"stream", "dashboard"} \subseteq started]_vars
    /\ [](("cycle" \in started) => ({"stream", "dashboard"} \subseteq started))

\* Witness for C24: the cycle is running, launched after the helper and
\* the dashboard, which are both still running.
C24_Witness ==
    /\ launcher = "start_schwab_one_trade"
    /\ pc = "cycle_run"
    /\ "cycle" \in running
    /\ {"stream", "dashboard"} \subseteq running

\* C28: whenever a launcher starts a background child, an EXIT trap that
\* signals that child is already installed in the script that starts it.
C28_TrapBeforeChild ==
    [][\A c \in (started' \ started) \ {"cycle"} :
         c \in Cleanup(launcher, trapInstalled) \cup TraderCleanup(traderTrap)]_vars

\* C29: every option start_live_trading.sh passes to start_d_ai_trader.sh is
\* one its argument loop accepts, so a run of start_live_trading.sh that has
\* ended without a signal ended after the delegated script started its
\* dashboard and automation, never with status 1.
C29_DelegationAccepted ==
    (launcher = "start_live_trading" /\ pc = "exited" /\ ~Terminated)
    => /\ \A arg \in DelegatedArgs : TraderAccepts(arg)
       /\ exitCode # 1
       /\ {"dashboard", "automation"} \subseteq started

\* C30: in start_schwab_one_trade.sh a trading cycle that returned a
\* non-zero status has ended the launcher with that status and the exit
\* trap has signalled the streaming helper and the dashboard, neither of
\* which is left running; the wait on the dashboard is reached only after
\* the cycle returned status 0.
C30_CycleFailureStopsUnits ==
    /\ (launcher = "start_schwab_one_trade" /\ cycleStatus \notin {None, Some(0)})
       => /\ pc = "exited"
          /\ exitCode = cycleStatus[1]
          /\ running \cap {"stream", "dashboard"} = {}
    /\ (pc = "wait" => cycleStatus = Some(0))

\* Witness for C30: the cycle returned status 1 while the helper and the
\* dashboard were running (neither had ended on its own), and the launcher
\* has ended with nothing left running.
C30_Witness ==
    /\ launcher = "start_schwab_one_trade"
    /\ cycleStatus = Some(1)
    /\ pc = "exited"
    /\ exitCode = 1
    /\ exitedAt["stream"] = None
    /\ exitedAt["dashboard"] = None
    /\ running = {}

====
